---- MODULE Spec2Model ----
(***************************************************************************)
(* PanelFlow core: the navigation tree of panel instances (TreeNode) and   *)
(* the Application orchestrator that mutates it in post_event.             *)
(*                                                                         *)
(* Python objects are modelled by value: a TreeNode is an entry of the     *)
(* function `nodes`, keyed by its node_id; a reference to a node is its    *)
(* id, None is 0.  A dict is a function on its key set, except             *)
(* children_stacks, whose iteration order the code depends on: it is the   *)
(* sequence of its items <<[key, stack], ...>> in insertion order.         *)
(***************************************************************************)
EXTENDS Integers, Sequences, FiniteSets, TLC

\* ------------------------------------------------------------------ bounds
\* node_id values uuid4 can hand out before the model stops creating nodes
MaxNodes == 4
\* number of distinct values a WidgetSubmittedEvent may carry
NumValues == 1
\* number of post_event calls in a run
MaxEvents == 3

Values == 1 .. NumValues
NodeIds == 1 .. MaxNodes
None == 0

\* ------------------------------------------------- configuration under test
\* A configuration in the shape of the repository's test configurations
\* (a handler on a button, a handler on a panel, a plain text input, a
\* panel_link), after _load_config and _validate_config_integrity.
NoHandler == "None"

panel_templates ==
  [ main  |-> [ id |-> "main", handler_class_name |-> NoHandler,
                widgets |-> << [id |-> "link", type |-> "panel_link",
                                handler_class_name |-> NoHandler,
                                target_panel_id |-> "child"],
                               [id |-> "goto_child", type |-> "button",
                                handler_class_name |-> "NavHandler"] >> ],
    child |-> [ id |-> "child", handler_class_name |-> "FormHandler",
                widgets |-> << [id |-> "child_text", type |-> "text_input",
                                handler_class_name |-> NoHandler],
                               [id |-> "another_nav", type |-> "button",
                                handler_class_name |-> "NavHandler"] >> ] ]

PanelIds == DOMAIN panel_templates
entry_panel_id == "main"
handler_map == {"NavHandler", "FormHandler"}

\* a panel id no template has, and a widget id no template has
UnknownPanel == "missing_panel"
UnknownWidget == "ghost"

RECURSIVE SeqToSet(_)
SeqToSet(s) == IF s = <<>> THEN {} ELSE {Head(s)} \cup SeqToSet(Tail(s))

WidgetIdsOf(p) == { panel_templates[p].widgets[i].id :
                      i \in DOMAIN panel_templates[p].widgets }
AllWidgetIds == UNION { WidgetIdsOf(p) : p \in PanelIds }

\* ------------------------------------------------------------------- dicts
EmptyDict == [k \in {} |-> None]
DictSet(d, k, v) == [x \in (DOMAIN d) \cup {k} |-> IF x = k THEN v ELSE d[x]]

\* children_stacks: ordered items
StackKeys(cs) == { cs[i].key : i \in DOMAIN cs }
StackIndex(cs, k) == CHOOSE i \in DOMAIN cs : cs[i].key = k
StackAt(cs, k) == cs[StackIndex(cs, k)].stack
\* (mutant) a list of items, not a dict: every assignment adds an item
StackAppend(cs, k, stack) == Append(cs, [key |-> k, stack |-> stack])

\* cs[k] = stack : an existing key keeps its position, a new one goes last
StackSet(cs, k, stack) ==
  IF k \in StackKeys(cs)
  THEN [cs EXCEPT ![StackIndex(cs, k)].stack = stack]
  ELSE Append(cs, [key |-> k, stack |-> stack])
\* del cs[k]
StackDel(cs, k) ==
  LET i == StackIndex(cs, k)
  IN  [j \in 1 .. (Len(cs) - 1) |-> IF j < i THEN cs[j] ELSE cs[j + 1]]

\* ------------------------------------------------------------ construction
\* the configuration file of the configuration under test
config_data ==
  [ entryPanel |-> entry_panel_id,
    panels     |-> << panel_templates["main"], panel_templates["child"] >> ]

\* Python truth of an Optional[str]: None and "" are false
Truthy(handler_class_name) ==
  handler_class_name # NoHandler /\ handler_class_name # ""

\* _panel_templates[panel.id] = panel, on a dict kept as the sequence of its
\* values in insertion order: a known id keeps its place and gets the new
\* panel, a new id goes last
TemplateSet(templates, panel) ==
  IF \E i \in DOMAIN templates : templates[i].id = panel.id
  THEN [i \in DOMAIN templates |->
          IF templates[i].id = panel.id THEN panel ELSE templates[i]]
  ELSE Append(templates, panel)

\* Application._parse_config_to_objects, the loop over config_data["panels"]
RECURSIVE parse_config_to_objects(_, _)
parse_config_to_objects(templates, panels) ==
  IF panels = <<>> THEN templates
  ELSE parse_config_to_objects(TemplateSet(templates, Head(panels)),
                               Tail(panels))

TemplateIds(templates) == { templates[i].id : i \in DOMAIN templates }

\* Application._validate_config_integrity, the loop over panel.widgets
RECURSIVE widget_errors(_, _, _)
widget_errors(widgets, templates, registry) ==
  IF widgets = <<>> THEN <<>>
  ELSE (IF /\ Truthy(Head(widgets).handler_class_name)
           /\ Head(widgets).handler_class_name \notin registry
        THEN << [error |-> "widget_handler", id |-> Head(widgets).id] >>
        ELSE <<>>)
       \o (IF /\ Head(widgets).type = "panel_link"
              /\ Head(widgets).target_panel_id \notin TemplateIds(templates)
           THEN << [error |-> "link_target", id |-> Head(widgets).id] >>
           ELSE <<>>)
       \o widget_errors(Tail(widgets), templates, registry)

\* Application._validate_config_integrity, the loop over _panel_templates
RECURSIVE panel_errors(_, _, _)
panel_errors(panels, templates, registry) ==
  IF panels = <<>> THEN <<>>
  ELSE (IF /\ Truthy(Head(panels).handler_class_name)
           /\ Head(panels).handler_class_name \notin registry
        THEN << [error |-> "panel_handler", id |-> Head(panels).id] >>
        ELSE <<>>)
       \o widget_errors(Head(panels).widgets, templates, registry)
       \o panel_errors(Tail(panels), templates, registry)

\* (mutant) only the entry panel is checked
validate_entry_panel_only(entry, templates, registry) ==
  IF entry \notin TemplateIds(templates)
  THEN << [error |-> "entry_panel", id |-> entry] >> ELSE <<>>

\* Application._validate_config_integrity: the list `errors`
validate_config_integrity(entry, templates, registry) ==
  (IF entry \notin TemplateIds(templates)
   THEN << [error |-> "entry_panel", id |-> entry] >> ELSE <<>>)
  \o panel_errors(templates, templates, registry)

\* what the constructor has done with a configuration
NotStarted(config) ==
  [ config_data |-> config, phase |-> "new", errors |-> <<>> ]

\* Application.__init__ up to _create_initial_state: _load_config, then
\* _validate_config_integrity, which raises ValueError on any error
load_and_validate(config) ==
  [ config_data |-> config,
    phase  |-> IF validate_config_integrity(
                    config.entryPanel,
                    parse_config_to_objects(<<>>, config.panels),
                    handler_map) = <<>>
               THEN "constructed" ELSE "ValueError",
    errors |-> validate_config_integrity(
                 config.entryPanel,
                 parse_config_to_objects(<<>>, config.panels),
                 handler_map) ]

\* ---------------------------------------------------------------- TreeNode
TreeNode(template, context, form_data, parent, is_active) ==
  [ panel_template  |-> template,
    context         |-> context,
    form_data       |-> form_data,
    parent          |-> parent,
    children_stacks |-> <<>>,
    is_active       |-> is_active ]

VARIABLES
  nodes,        \* node_id -> TreeNode, the nodes the application still holds
  created,      \* how many node_ids have been handed out
  tree_root,    \* Application._tree_root
  active_node,  \* Application._active_node
  published,    \* outbound events published by the last post_event, in order
  posted,       \* how many times post_event has been called
  last,         \* the last inbound event and what its handler did
  event_subscribers,  \* Application._event_subscribers, in list order
  delivered,    \* the callback calls made by the last post_event, in order
  called,       \* the handler classes the last post_event called, in order
  construction  \* the configuration __init__ was given and how it ended

vars == <<nodes, created, tree_root, active_node, published, posted, last,
          event_subscribers, delivered, called, construction>>

\* the part of the application the tree algorithms read and write
\* (raised: an exception is propagating out of the event handler)
AppState == [nodes |-> nodes, created |-> created, active_node |-> active_node,
             published |-> <<>>, raised |-> FALSE,
             event_subscribers |-> event_subscribers, delivered |-> <<>>,
             called |-> <<>>, depth |-> 0]

StateChangedEvent == [type |-> "StateChanged", title |-> ""]
ErrorOccurredEvent(title) == [type |-> "ErrorOccurred", title |-> title]

\* the nodes of every stack of n, in the order children_stacks.values() and
\* then each stack's own order
RECURSIVE ConcatStacks(_)
ConcatStacks(cs) ==
  IF cs = <<>> THEN <<>> ELSE Head(cs).stack \o ConcatStacks(Tail(cs))

ChildrenOf(ns, n) == ConcatStacks(ns[n].children_stacks)

\* the nodes the application can still reach after an event: the tree
\* under the root, and the node _active_node refers to; the others are
\* garbage to the interpreter
RECURSIVE Subtree(_, _), SubtreeOfAll(_, _)
Subtree(ns, n) == {n} \cup SubtreeOfAll(ns, ChildrenOf(ns, n))
SubtreeOfAll(ns, children) ==
  IF children = <<>> THEN {}
  ELSE Subtree(ns, Head(children)) \cup SubtreeOfAll(ns, Tail(children))

Reachable(ns, root) == IF root = None THEN {} ELSE Subtree(ns, root)

Held(ns, root, active) ==
  Reachable(ns, root) \cup (IF active = None THEN {} ELSE {active})

\* what a subscriber can see of state s: the nodes it can reach from the
\* tree_root an event carries and from the active_node accessor
Observed(s) ==
  [ nodes |-> [n \in Held(s.nodes, tree_root, s.active_node) |-> s.nodes[n]],
    active_node |-> s.active_node ]

\* The callbacks a renderer may subscribe: one that returns and one that
\* raises whenever it is called.
Callbacks == {"on_event", "failing_callback"}
CallbackRaises(callback) == callback = "failing_callback"

\* A callback that calls post_event itself, with a BackNavigationEvent,
\* whenever it is called for an event of a post_event that was not posted
\* by a callback.
PostingCallback == "posting_callback"
PostedFromCallback ==
  [type |-> "BackNavigation", widget_id |-> "", value |-> 0,
   direction |-> "", outcome |-> [kind |-> "not_called", target |-> ""]]

\* one call callback(event): how it ended, how deep in post_event calls it
\* was made (0: by a post_event of the caller, 1: by one a callback posted)
\* and the tree the callback saw
CallbackCall(s, callback, event) ==
  [callback |-> callback, event |-> event,
   raised |-> CallbackRaises(callback),
   depth |-> s.depth, observed |-> Observed(s)]

\* Application.subscribe_to_events
subscribe_to_events(subscribers, callback) ==
  IF callback \notin SeqToSet(subscribers)
  THEN Append(subscribers, callback) ELSE subscribers

\* Application.unsubscribe_from_events
unsubscribe_from_events(subscribers, callback) ==
  IF callback \in SeqToSet(subscribers)
  THEN SelectSeq(subscribers, LAMBDA c : c # callback) ELSE subscribers

\* Callbacks that call the subscription methods themselves whenever they
\* are called: a one-shot listener that unsubscribes itself, and one that
\* subscribes the callback "on_event" (which may be subscribed already).
OneShotCallback == "one_shot_callback"
SubscribingCallback == "subscribing_callback"

\* what the call callback(event) does to _event_subscribers
subscribers_after_call(subscribers, callback) ==
  IF callback = OneShotCallback
  THEN unsubscribe_from_events(subscribers, callback)
  ELSE IF callback = SubscribingCallback
  THEN subscribe_to_events(subscribers, "on_event")
  ELSE subscribers

\* the call callback(event) seen from the core: it is recorded, and
\* _event_subscribers is what the callback has made of it
callback_returned(s, callback, event) ==
  [s EXCEPT !.delivered = Append(@, CallbackCall(s, callback, event)),
            !.event_subscribers = subscribers_after_call(@, callback)]

RECURSIVE post_event(_, _, _)
\* Application._publish_event, one turn of the loop: callback(event) runs to
\* its end, and with it the post_event it makes, if it makes one
callback_called(s, callback, event) ==
  IF callback = PostingCallback /\ s.depth = 0
  THEN [post_event(
          [s EXCEPT !.delivered = Append(@, CallbackCall(s, callback, event)),
                    !.depth = 1],
          tree_root, PostedFromCallback)
        EXCEPT !.depth = 0]
  ELSE callback_returned(s, callback, event)

RECURSIVE deliver_unprotected(_, _, _), deliver(_, _, _)
\* (mutant) no try around callback(event): the loop ends at the first
\* callback that raises
deliver_unprotected(s, i, event) ==
  IF i > Len(s.event_subscribers) THEN s
  ELSE IF CallbackRaises(s.event_subscribers[i])
  THEN callback_called(s, s.event_subscribers[i], event)
  ELSE deliver_unprotected(callback_called(s, s.event_subscribers[i], event),
                           i + 1, event)

\* Application._publish_event, the loop `for callback in
\* self._event_subscribers`: a list iterator over the list itself, which
\* takes the element at position i of the list as it is when the turn
\* begins (i counts from 1 here) and stops when there is none; every
\* callback it takes is called, an exception of a callback is caught and
\* the loop goes on
deliver(s, i, event) ==
  IF i > Len(s.event_subscribers) THEN s
  ELSE deliver(callback_called(s, s.event_subscribers[i], event),
               i + 1, event)

\* Application._publish_event
publish_event(s, event) ==
  deliver([s EXCEPT !.published = Append(@, event)], 1, event)

\* ---------------------------------------------------------- tree algorithms
\* Application._find_node_by_widget_id: pre-order search from the root,
\* through every stack, for the first node whose template has the widget
RECURSIVE search_node(_, _, _), search_children(_, _, _)
\* (mutant) the search looks under a node before it looks at the node
search_node_children_first(ns, n, widget_id) ==
  LET below == search_children(ns, ChildrenOf(ns, n), widget_id)
  IN  IF below # None THEN below
      ELSE IF widget_id \in WidgetIdsOf(ns[n].panel_template) THEN n
      ELSE None
search_node(ns, n, widget_id) ==
  IF widget_id \in WidgetIdsOf(ns[n].panel_template)
  THEN n
  ELSE search_children(ns, ChildrenOf(ns, n), widget_id)
search_children(ns, children, widget_id) ==
  IF children = <<>> THEN None
  ELSE LET result == search_node(ns, Head(children), widget_id)
       IN  IF result # None THEN result
           ELSE search_children(ns, Tail(children), widget_id)

find_node_by_widget_id(ns, root, widget_id) ==
  IF root = None THEN None ELSE search_node(ns, root, widget_id)

\* Application._get_path_to_active_node: parent links from the active node
\* up, reversed (root-first)
RECURSIVE PathUp(_, _)
PathUp(ns, current) ==
  IF current = None THEN <<>>
  ELSE Append(PathUp(ns, ns[current].parent), current)

get_path_to_active_node(s) ==
  IF s.active_node = None THEN <<>> ELSE PathUp(s.nodes, s.active_node)

\* Application._set_active_node
set_active_node(s, node) ==
  LET ns1 == IF s.active_node # None
             THEN [s.nodes EXCEPT ![s.active_node].is_active = FALSE]
             ELSE s.nodes
      ns2 == IF node # None
             THEN [ns1 EXCEPT ![node].is_active = TRUE]
             ELSE ns1
  IN  [s EXCEPT !.nodes = ns2, !.active_node = node]

\* Application._destroy_stack_recursively, on the node store: every node of
\* the stack has its child stacks destroyed first, then loses its
\* children_stacks, its parent and its is_active flag.  The final
\* stack.clear() empties the list object the caller passed; the callers
\* below apply it to the dict entry that holds that list.
RECURSIVE destroy_stack_shallow(_, _)
RECURSIVE destroy_stack_recursively(_, _), destroy_child_stacks(_, _)
\* (mutant) the nodes of the stack are detached, the branches under them
\* are left as they are
destroy_stack_shallow(ns, stack) ==
  IF stack = <<>> THEN ns
  ELSE destroy_stack_shallow(
         [ns EXCEPT ![Head(stack)].children_stacks = <<>>,
                    ![Head(stack)].parent = None,
                    ![Head(stack)].is_active = FALSE],
         Tail(stack))
destroy_stack_recursively(ns, stack) ==
  IF stack = <<>> THEN ns
  ELSE LET node == Head(stack)
           ns1  == destroy_child_stacks(ns, ns[node].children_stacks)
           ns2  == [ns1 EXCEPT ![node].children_stacks = <<>>,
                               ![node].parent = None,
                               ![node].is_active = FALSE]
       IN  destroy_stack_recursively(ns2, Tail(stack))
destroy_child_stacks(ns, cs) ==
  IF cs = <<>> THEN ns
  ELSE destroy_child_stacks(destroy_stack_recursively(ns, Head(cs).stack),
                            Tail(cs))

\* Application._create_panel_instance: the template for a target id, or
\* "ValueError" where the code raises it
create_panel_instance(target) ==
  IF target \in PanelIds THEN target ELSE "ValueError"


\* (mutant) a panel shows one branch at a time: every stack of the source
\* is destroyed and taken out of the dict, not only the widget's
destroy_every_branch(s, source_node, source_widget_id) ==
  [s EXCEPT !.nodes =
     [destroy_child_stacks(s.nodes, s.nodes[source_node].children_stacks)
      EXCEPT ![source_node].children_stacks = <<>>]]

\* Application._execute_navigation_down, first step: an existing stack for
\* the widget is destroyed (before the target is resolved); its list, now
\* empty, stays in the dict
destroy_old_branch(s, source_node, source_widget_id) ==
  IF source_widget_id \in StackKeys(s.nodes[source_node].children_stacks)
  THEN [s EXCEPT !.nodes =
          [destroy_stack_recursively(
             s.nodes,
             StackAt(s.nodes[source_node].children_stacks, source_widget_id))
           EXCEPT ![source_node].children_stacks =
                     StackSet(@, source_widget_id, <<>>)]]
  ELSE s

\* (mutant) the new node is put in the stack without a parent
attach_without_parent(s, source_node, source_widget_id, panel_template) ==
  LET new_node == s.created + 1
  IN  set_active_node(
        [s EXCEPT
           !.created = new_node,
           !.nodes = [n \in (DOMAIN s.nodes) \cup {new_node} |->
              IF n = new_node
              THEN TreeNode(panel_template,
                            s.nodes[source_node].form_data,
                            EmptyDict, None, FALSE)
              ELSE IF n = source_node
              THEN [s.nodes[n] EXCEPT !.children_stacks =
                      StackSet(@, source_widget_id, <<new_node>>)]
              ELSE s.nodes[n]]],
        new_node)

\* (mutant) the new node is handed the source's context, not its form_data
attach_parent_context(s, source_node, source_widget_id, panel_template) ==
  LET new_node == s.created + 1
  IN  set_active_node(
        [s EXCEPT
           !.created = new_node,
           !.nodes = [n \in (DOMAIN s.nodes) \cup {new_node} |->
              IF n = new_node
              THEN TreeNode(panel_template, s.nodes[source_node].context,
                            EmptyDict, source_node, FALSE)
              ELSE IF n = source_node
              THEN [s.nodes[n] EXCEPT !.children_stacks =
                      StackSet(@, source_widget_id, <<new_node>>)]
              ELSE s.nodes[n]]],
        new_node)

\* Application._execute_navigation_down, last step: the new TreeNode, with a
\* copy of the source's form_data as context, alone in the widget's stack,
\* and active
attach_new_node(s, source_node, source_widget_id, panel_template) ==
  LET new_node == s.created + 1   \* uuid4(): an id never used before
  IN  set_active_node(
        [s EXCEPT
           !.created = new_node,
           !.nodes = [n \in (DOMAIN s.nodes) \cup {new_node} |->
              IF n = new_node
              THEN TreeNode(panel_template, s.nodes[source_node].form_data,
                            EmptyDict, source_node, FALSE)
              ELSE IF n = source_node
              THEN [s.nodes[n] EXCEPT !.children_stacks =
                      StackSet(@, source_widget_id, <<new_node>>)]
              ELSE s.nodes[n]]],
        new_node)

\* Application._execute_navigation_down, from the target's resolution on
resolve_and_attach(s, source_node, source_widget_id, target) ==
  IF create_panel_instance(target) = "ValueError"
  THEN publish_event(s, ErrorOccurredEvent("navigation"))
  ELSE publish_event(
         attach_new_node(s, source_node, source_widget_id,
                         create_panel_instance(target)),
         StateChangedEvent)

\* (mutant) append semantics: the new node is pushed on the widget's stack,
\* on top of the branch that is there
execute_navigation_down_append(s, source_node, source_widget_id, target) ==
  IF create_panel_instance(target) = "ValueError"
  THEN publish_event(s, ErrorOccurredEvent("navigation"))
  ELSE LET new_node == s.created + 1
           old == IF source_widget_id
                       \in StackKeys(s.nodes[source_node].children_stacks)
                  THEN StackAt(s.nodes[source_node].children_stacks,
                               source_widget_id)
                  ELSE <<>>
       IN  publish_event(
             set_active_node(
               [s EXCEPT
                  !.created = new_node,
                  !.nodes = [n \in (DOMAIN s.nodes) \cup {new_node} |->
                     IF n = new_node
                     THEN TreeNode(create_panel_instance(target),
                                   s.nodes[source_node].form_data,
                                   EmptyDict, source_node, FALSE)
                     ELSE IF n = source_node
                     THEN [s.nodes[n] EXCEPT !.children_stacks =
                             StackSet(@, source_widget_id,
                                      Append(old, new_node))]
                     ELSE s.nodes[n]]],
               new_node),
             StateChangedEvent)

\* Application._execute_navigation_down
execute_navigation_down(s, source_node, source_widget_id, target) ==
  resolve_and_attach(destroy_old_branch(s, source_node, source_widget_id),
                     source_node, source_widget_id, target)

\* ------------------------------------------------- TreeNode.__eq__ and lists
\* TreeNode is a dataclass, so `node in stack`, stack.index(node) and
\* stack.remove(node) compare with the generated __eq__: the tuples
\* (panel_template, context, form_data, parent, children_stacks, node_id,
\* is_active), item by item, identical items counting as equal.  Two
\* distinct nodes differ in node_id, so the answer is "False" unless the
\* comparison recurses for ever (parent -> children -> parent), which
\* CPython ends with RecursionError.
EqDepth == MaxNodes * MaxNodes

RECURSIVE NodeEq(_, _, _, _), StackEq(_, _, _, _), StacksEq(_, _, _, _, _)
NodeEq(ns, x, y, depth) ==
  IF x = y THEN "True"
  ELSE IF x = None \/ y = None THEN "False"
  ELSE IF depth = 0 THEN "RecursionError"
  ELSE IF ns[x].panel_template # ns[y].panel_template THEN "False"
  ELSE IF ns[x].context # ns[y].context THEN "False"
  ELSE IF ns[x].form_data # ns[y].form_data THEN "False"
  ELSE LET p == NodeEq(ns, ns[x].parent, ns[y].parent, depth - 1)
       IN  IF p # "True" THEN p
           ELSE LET c == StacksEq(ns, ns[x].children_stacks,
                                  ns[y].children_stacks, 1, depth - 1)
                IN  IF c # "True" THEN c ELSE "False"
\* list == list
StackEq(ns, a, b, depth) ==
  IF Len(a) # Len(b) THEN "False"
  ELSE IF a = <<>> THEN "True"
  ELSE LET e == NodeEq(ns, Head(a), Head(b), depth)
       IN  IF e # "True" THEN e
           ELSE StackEq(ns, Tail(a), Tail(b), depth)
\* dict == dict, from item i of a on
StacksEq(ns, a, b, i, depth) ==
  IF Len(a) # Len(b) THEN "False"
  ELSE IF i > Len(a) THEN "True"
  ELSE IF a[i].key \notin StackKeys(b) THEN "False"
  ELSE LET e == StackEq(ns, StackAt(b, a[i].key), a[i].stack, depth)
       IN  IF e # "True" THEN e
           ELSE StacksEq(ns, a, b, i + 1, depth)

\* list.index(node) from position i on: the 1-based position of the first
\* element equal to node, 0 where Python raises ValueError (for `in`:
\* False), -1 where the comparison raises RecursionError
RECURSIVE ListIndex(_, _, _, _)
ListIndex(ns, list, node, i) ==
  IF i > Len(list) THEN 0
  ELSE LET e == NodeEq(ns, list[i], node, EqDepth)
       IN  IF e = "True" THEN i
           ELSE IF e = "RecursionError" THEN -1
           ELSE ListIndex(ns, list, node, i + 1)

\* the loop `for key, current_stack in parent.children_stacks.items():
\* if active_node in current_stack: ... break`: the position of the first
\* item whose stack has the node, 0 if none has, -1 on RecursionError
RECURSIVE FindStack(_, _, _, _)
FindStack(ns, cs, node, i) ==
  IF i > Len(cs) THEN 0
  ELSE LET r == ListIndex(ns, cs[i].stack, node, 1)
       IN  IF r > 0 THEN i
           ELSE IF r < 0 THEN -1
           ELSE FindStack(ns, cs, node, i + 1)

\* list.pop(i) (1-based here)
ListPop(list, i) ==
  [j \in 1 .. (Len(list) - 1) |-> IF j < i THEN list[j] ELSE list[j + 1]]

Raise(s) == [s EXCEPT !.raised = TRUE]

\* ----------------------------------------------------------- user handlers
\* What the handler object does when it is constructed and on_widget_update
\* is called is the caller's code: it raises, it returns a
\* ("navigate_down", target) tuple, or it returns anything else (None).
ReturnNone == [kind |-> "return_none", target |-> ""]
Raises == [kind |-> "raise", target |-> ""]
NavigateDown(target) == [kind |-> "navigate_down", target |-> target]
NotCalled == [kind |-> "not_called", target |-> ""]
HandlerOutcomes ==
  {ReturnNone, Raises} \cup
  { NavigateDown(t) : t \in PanelIds \cup {UnknownPanel} }

\* the handler lookup of _handle_widget_submission: the first widget of the
\* template with this id and a handler of its own, else the panel's handler
RECURSIVE widget_handler(_, _)
widget_handler(widgets, widget_id) ==
  IF widgets = <<>> THEN NoHandler
  ELSE IF Head(widgets).id = widget_id
          /\ Head(widgets).handler_class_name # NoHandler
       THEN Head(widgets).handler_class_name
       ELSE widget_handler(Tail(widgets), widget_id)

\* (mutant) the panel's handler comes before the widget's own
resolve_handler_panel_first(panel, widget_id) ==
  IF panel_templates[panel].handler_class_name # NoHandler
  THEN panel_templates[panel].handler_class_name
  ELSE widget_handler(panel_templates[panel].widgets, widget_id)

resolve_handler(panel, widget_id) ==
  LET own == widget_handler(panel_templates[panel].widgets, widget_id)
  IN  IF own # NoHandler THEN own
      ELSE panel_templates[panel].handler_class_name

\* the handler class _handle_widget_submission would call for this event in
\* state s, NoHandler if it calls none
handler_for(s, root, widget_id) ==
  LET source_node == find_node_by_widget_id(s.nodes, root, widget_id)
  IN  IF source_node = None THEN NoHandler
      ELSE LET h == resolve_handler(s.nodes[source_node].panel_template,
                                    widget_id)
           IN  IF h # NoHandler /\ h \in handler_map THEN h ELSE NoHandler

\* ---------------------------------------------------------- event handlers
\* (mutant) the submitted value is not written
record_form_data_dropped(s, source_node, widget_id, value) == s

\* (mutant) the contexts of the node's children are its form_data dict
\* itself (no copy was taken), so the write shows in them
record_form_data_shared(s, source_node, widget_id, value) ==
  [s EXCEPT !.nodes =
     [n \in DOMAIN s.nodes |->
        IF n = source_node
        THEN [s.nodes[n] EXCEPT !.form_data = DictSet(@, widget_id, value)]
        ELSE IF s.nodes[n].parent = source_node
        THEN [s.nodes[n] EXCEPT !.context = DictSet(@, widget_id, value)]
        ELSE s.nodes[n]]]

\* Application._handle_widget_submission, the write
\* source_node.form_data[event.widget_id] = event.value
record_form_data(s, source_node, widget_id, value) ==
  [s EXCEPT !.nodes[source_node].form_data = DictSet(@, widget_id, value)]

\* (mutant) no return after the ErrorOccurredEvent: the StateChangedEvent
\* at the end of the method goes out too
handler_raised_no_return(s) ==
  publish_event(publish_event(s, ErrorOccurredEvent("handler")),
                StateChangedEvent)

\* Application._handle_widget_submission, the except clause around the
\* handler call: ErrorOccurredEvent, and return
handler_raised(s) ==
  publish_event(s, ErrorOccurredEvent("handler"))

\* Application._handle_widget_submission, the call: an instance of the
\* handler class is made and its on_widget_update called
handler_called(s, handler_class_name) ==
  [s EXCEPT !.called = Append(@, handler_class_name)]

\* (mutant) a panel_link with no handler opens its target panel
run_handler_following_links(s, source_node, widget_id, handler_class_name, outcome) ==
  IF handler_class_name = NoHandler /\ widget_id = "link"
  THEN execute_navigation_down(s, source_node, widget_id, "child")
  ELSE IF handler_class_name = NoHandler
  THEN publish_event(s, StateChangedEvent)
  ELSE IF outcome.kind = "raise"
  THEN handler_raised(handler_called(s, handler_class_name))
  ELSE IF outcome.kind = "navigate_down"
  THEN execute_navigation_down(handler_called(s, handler_class_name),
                               source_node, widget_id, outcome.target)
  ELSE publish_event(handler_called(s, handler_class_name),
                     StateChangedEvent)

\* (mutant) no return after _execute_navigation_down: the submission goes
\* on to publish its own StateChangedEvent
run_handler_falling_through(s, source_node, widget_id, handler_class_name, outcome) ==
  IF handler_class_name = NoHandler
  THEN publish_event(s, StateChangedEvent)
  ELSE IF outcome.kind = "raise"
  THEN handler_raised(handler_called(s, handler_class_name))
  ELSE IF outcome.kind = "navigate_down"
  THEN publish_event(
         execute_navigation_down(handler_called(s, handler_class_name),
                                 source_node, widget_id, outcome.target),
         StateChangedEvent)
  ELSE publish_event(handler_called(s, handler_class_name),
                     StateChangedEvent)

\* Application._handle_widget_submission, from the handler call on; the
\* outcome is looked at only if a handler is called
run_handler(s, source_node, widget_id, handler_class_name, outcome) ==
  IF handler_class_name = NoHandler
  THEN publish_event(s, StateChangedEvent)
  ELSE IF outcome.kind = "raise"
  THEN handler_raised(handler_called(s, handler_class_name))
  ELSE IF outcome.kind = "navigate_down"
  THEN execute_navigation_down(handler_called(s, handler_class_name),
                               source_node, widget_id, outcome.target)
  ELSE publish_event(handler_called(s, handler_class_name),
                     StateChangedEvent)

\* (mutant) the value is recorded only if the handler does not raise
submit_to_node_unless_raised(s, root, source_node, widget_id, value, outcome) ==
  IF source_node = None THEN s
  ELSE IF outcome.kind = "raise"
  THEN run_handler(s, source_node, widget_id,
                   handler_for(s, root, widget_id), outcome)
  ELSE run_handler(record_form_data(s, source_node, widget_id, value),
                   source_node, widget_id,
                   handler_for(s, root, widget_id), outcome)

\* (mutant) a widget that is not found is reported with a StateChangedEvent
submit_to_node_notifying(s, root, source_node, widget_id, value, outcome) ==
  IF source_node = None THEN publish_event(s, StateChangedEvent)
  ELSE run_handler(record_form_data(s, source_node, widget_id, value),
                   source_node, widget_id,
                   handler_for(s, root, widget_id), outcome)

\* Application._handle_widget_submission, once the widget's node is looked up
submit_to_node(s, root, source_node, widget_id, value, outcome) ==
  IF source_node = None THEN s
  ELSE run_handler(record_form_data(s, source_node, widget_id, value),
                   source_node, widget_id,
                   handler_for(s, root, widget_id), outcome)

\* Application._handle_widget_submission
handle_widget_submission(s, root, widget_id, value, outcome) ==
  submit_to_node(s, root, find_node_by_widget_id(s.nodes, root, widget_id),
                 widget_id, value, outcome)

\* (mutant) the panels to the right of the newly active node are closed:
\* its branches are destroyed as by a back navigation
handle_horizontal_navigation_closing(s, direction) ==
  IF s.active_node = None THEN s
  ELSE
    LET path == get_path_to_active_node(s)
    IN  IF Len(path) <= 1 THEN s
        ELSE
          LET current_index == ListIndex(s.nodes, path, s.active_node, 1)
              new_index == IF direction = "next" THEN current_index + 1
                           ELSE current_index - 1
          IN  IF current_index = 0 THEN s
              ELSE IF current_index < 0 THEN Raise(s)
              ELSE IF 1 <= new_index /\ new_index <= Len(path)
              THEN publish_event(
                     set_active_node(
                       [s EXCEPT !.nodes =
                          [destroy_child_stacks(
                             s.nodes,
                             s.nodes[path[new_index]].children_stacks)
                           EXCEPT ![path[new_index]].children_stacks = <<>>]],
                       path[new_index]),
                     StateChangedEvent)
              ELSE s

\* Application._handle_horizontal_navigation
handle_horizontal_navigation(s, direction) ==
  IF s.active_node = None THEN s
  ELSE
    LET path == get_path_to_active_node(s)
    IN  IF Len(path) <= 1 THEN s
        ELSE
          LET current_index == ListIndex(s.nodes, path, s.active_node, 1)
              new_index == IF direction = "next" THEN current_index + 1
                           ELSE current_index - 1
          IN  IF current_index = 0 THEN s
              ELSE IF current_index < 0 THEN Raise(s)
              ELSE IF 1 <= new_index /\ new_index <= Len(path)
              THEN publish_event(set_active_node(s, path[new_index]),
                                 StateChangedEvent)
              ELSE s

\* (mutant) the node at the new index becomes active where it stands
promote_in_place(s, parent, at, stack, new_index) ==
  IF 1 <= new_index /\ new_index <= Len(stack)
  THEN publish_event(set_active_node(s, stack[new_index]),
                     StateChangedEvent)
  ELSE s

\* (mutant) StateChangedEvent is published whether the new index is in the
\* stack or not
promote_to_top_notifying(s, parent, at, stack, new_index) ==
  IF 1 <= new_index /\ new_index <= Len(stack)
  THEN publish_event(
         set_active_node(
           [s EXCEPT !.nodes[parent].children_stacks[at].stack =
                        Append(ListPop(stack, new_index), stack[new_index])],
           stack[new_index]),
         StateChangedEvent)
  ELSE publish_event(s, StateChangedEvent)

\* Application._handle_vertical_navigation, once the stack of the active
\* node is known (stack = item `at` of the parent's children_stacks) and
\* the active node's position in it
promote_to_top(s, parent, at, stack, new_index) ==
  IF 1 <= new_index /\ new_index <= Len(stack)
  THEN publish_event(
         set_active_node(
           [s EXCEPT !.nodes[parent].children_stacks[at].stack =
                        Append(ListPop(stack, new_index), stack[new_index])],
           stack[new_index]),
         StateChangedEvent)
  ELSE s

\* Application._handle_vertical_navigation, after the search for the stack
vertical_in_stack(s, direction, parent, cs, at) ==
  IF at < 0 THEN Raise(s)
  ELSE IF at = 0 THEN s
  ELSE IF Len(cs[at].stack) <= 1 THEN s
  ELSE promote_to_top(
         s, parent, at, cs[at].stack,
         IF direction = "up"
         THEN ListIndex(s.nodes, cs[at].stack, s.active_node, 1) + 1
         ELSE ListIndex(s.nodes, cs[at].stack, s.active_node, 1) - 1)

\* Application._handle_vertical_navigation
handle_vertical_navigation(s, direction) ==
  IF s.active_node = None THEN s
  ELSE IF s.nodes[s.active_node].parent = None THEN s
  ELSE vertical_in_stack(
         s, direction, s.nodes[s.active_node].parent,
         s.nodes[s.nodes[s.active_node].parent].children_stacks,
         FindStack(s.nodes,
                   s.nodes[s.nodes[s.active_node].parent].children_stacks,
                   s.active_node, 1))

\* Application._handle_back_navigation, first step: the active node's own
\* branches are destroyed and its children_stacks cleared
destroy_own_branches(s) ==
  [s EXCEPT !.nodes =
     [destroy_child_stacks(s.nodes, s.nodes[s.active_node].children_stacks)
      EXCEPT ![s.active_node].children_stacks = <<>>]]

\* (mutant) parent.children_stacks.clear() in place of
\* del parent.children_stacks[stack_key]
detach_active_node_clearing(s, active, parent, stack_key, stack) ==
  publish_event(
    set_active_node(
      [s EXCEPT !.nodes =
         [n \in DOMAIN s.nodes |->
            IF n = active
            THEN [s.nodes[n] EXCEPT !.parent = None, !.is_active = FALSE]
            ELSE IF n = parent
            THEN [s.nodes[n] EXCEPT !.children_stacks =
                    IF stack # <<>> THEN StackSet(@, stack_key, stack)
                    ELSE <<>>]
            ELSE s.nodes[n]]],
      IF stack # <<>> THEN stack[Len(stack)] ELSE parent),
    StateChangedEvent)

\* Application._handle_back_navigation, last step: the active node, taken
\* out of its stack (stack = what is left of it), is detached; an emptied
\* stack is deleted; the top of the stack or else the parent becomes active
detach_active_node(s, active, parent, stack_key, stack) ==
  publish_event(
    set_active_node(
      [s EXCEPT !.nodes =
         [n \in DOMAIN s.nodes |->
            IF n = active
            THEN [s.nodes[n] EXCEPT !.parent = None, !.is_active = FALSE]
            ELSE IF n = parent
            THEN [s.nodes[n] EXCEPT !.children_stacks =
                    IF stack # <<>> THEN StackSet(@, stack_key, stack)
                    ELSE StackDel(@, stack_key)]
            ELSE s.nodes[n]]],
      IF stack # <<>> THEN stack[Len(stack)] ELSE parent),
    StateChangedEvent)

\* (mutant) stack.remove(active_node) is left out
back_in_stack_no_remove(s, parent, cs, at) ==
  IF at < 0 THEN Raise(s)
  ELSE IF at = 0 THEN s
  ELSE detach_active_node(s, s.active_node, parent, cs[at].key, cs[at].stack)

\* Application._handle_back_navigation, after the search for the stack
back_in_stack(s, parent, cs, at) ==
  IF at < 0 THEN Raise(s)
  ELSE IF at = 0 THEN s
  ELSE detach_active_node(
         s, s.active_node, parent, cs[at].key,
         ListPop(cs[at].stack,
                 ListIndex(s.nodes, cs[at].stack, s.active_node, 1)))

\* Application._handle_back_navigation, from the search for the stack on
close_active_node(s, parent) ==
  back_in_stack(s, parent, s.nodes[parent].children_stacks,
                FindStack(s.nodes, s.nodes[parent].children_stacks,
                          s.active_node, 1))

\* (mutant) the active node's branches are destroyed before the test for
\* the root
handle_back_navigation_destroy_first(s) ==
  IF s.active_node = None THEN s
  ELSE IF s.nodes[s.active_node].parent = None THEN destroy_own_branches(s)
  ELSE close_active_node(destroy_own_branches(s),
                         s.nodes[s.active_node].parent)

\* Application._handle_back_navigation
handle_back_navigation(s) ==
  IF s.active_node = None THEN s
  ELSE IF s.nodes[s.active_node].parent = None THEN s
  ELSE close_active_node(destroy_own_branches(s),
                         s.nodes[s.active_node].parent)

\* (mutant) no except clause: the exception goes on to the caller
catch_exception_propagates(r) == r

\* Application.post_event, the except clause: an exception that leaves the
\* event handler becomes an ErrorOccurredEvent
catch_exception(r) ==
  IF r.raised
  THEN publish_event([r EXCEPT !.raised = FALSE],
                     ErrorOccurredEvent("internal"))
  ELSE r

\* Application.post_event: dispatch on the event type
post_event(s, root, event) ==
  catch_exception(
    IF event.type = "WidgetSubmitted"
    THEN handle_widget_submission(s, root, event.widget_id,
                                  event.value, event.outcome)
    ELSE IF event.type = "HorizontalNavigation"
    THEN handle_horizontal_navigation(s, event.direction)
    ELSE IF event.type = "VerticalNavigation"
    THEN handle_vertical_navigation(s, event.direction)
    ELSE IF event.type = "BackNavigation"
    THEN handle_back_navigation(s)
    ELSE s)

\* ------------------------------------------------------------------ events
WidgetSubmittedEvent(widget_id, value, outcome) ==
  [type |-> "WidgetSubmitted", widget_id |-> widget_id, value |-> value,
   direction |-> "", outcome |-> outcome]
HorizontalNavigationEvent(direction) ==
  [type |-> "HorizontalNavigation", widget_id |-> "", value |-> 0,
   direction |-> direction, outcome |-> NotCalled]
VerticalNavigationEvent(direction) ==
  [type |-> "VerticalNavigation", widget_id |-> "", value |-> 0,
   direction |-> direction, outcome |-> NotCalled]
BackNavigationEvent ==
  [type |-> "BackNavigation", widget_id |-> "", value |-> 0,
   direction |-> "", outcome |-> NotCalled]
NoEvent ==
  [type |-> "", widget_id |-> "", value |-> 0, direction |-> "",
   outcome |-> NotCalled]

\* ------------------------------------------------------------ specification
\* Application._create_initial_state
Init ==
  /\ nodes = [n \in {1} |->
                TreeNode(entry_panel_id, EmptyDict, EmptyDict, None, TRUE)]
  /\ created = 1
  /\ tree_root = 1
  /\ active_node = 1
  /\ published = <<>>
  /\ posted = 0
  /\ last = NoEvent
  /\ event_subscribers = <<>>
  /\ delivered = <<>>
  /\ called = <<>>
  /\ construction = load_and_validate(config_data)

\* the nodes post_event leaves: those of its result r, less the nodes
\* nothing refers to any more
Kept(r) == [n \in Held(r.nodes, tree_root, r.active_node) |-> r.nodes[n]]

\* the model stops at MaxEvents events and MaxNodes node ids
WithinBounds(r) == posted < MaxEvents /\ r.created <= MaxNodes

\* post_event(WidgetSubmittedEvent(widget_id, value)); the outcome is what
\* the user's handler does if the event gets to call one
WidgetSubmitted ==
  \E widget_id \in AllWidgetIds \cup {UnknownWidget}, value \in Values :
    \E outcome \in
         IF handler_for(AppState, tree_root, widget_id) # NoHandler
         THEN HandlerOutcomes ELSE {NotCalled} :
      \E r \in {catch_exception(handle_widget_submission(
                  AppState, tree_root, widget_id, value, outcome))} :
        /\ WithinBounds(r)
        /\ nodes' = Kept(r)
        /\ created' = r.created
        /\ active_node' = r.active_node
        /\ published' = r.published
        /\ delivered' = r.delivered
        /\ event_subscribers' = r.event_subscribers
        /\ called' = r.called
        /\ posted' = posted + 1
        /\ last' = WidgetSubmittedEvent(widget_id, value, outcome)
        /\ UNCHANGED <<tree_root, construction>>

\* post_event(HorizontalNavigationEvent(direction))
HorizontalNavigation ==
  \E direction \in {"next", "previous"} :
    \E r \in {catch_exception(
                handle_horizontal_navigation(AppState, direction))} :
      /\ WithinBounds(r)
      /\ nodes' = Kept(r)
      /\ created' = r.created
      /\ active_node' = r.active_node
      /\ published' = r.published
      /\ delivered' = r.delivered
      /\ event_subscribers' = r.event_subscribers
      /\ called' = r.called
      /\ posted' = posted + 1
      /\ last' = HorizontalNavigationEvent(direction)
      /\ UNCHANGED <<tree_root, construction>>

\* post_event(VerticalNavigationEvent(direction))
VerticalNavigation ==
  \E direction \in {"up", "down"} :
    \E r \in {catch_exception(
                handle_vertical_navigation(AppState, direction))} :
      /\ WithinBounds(r)
      /\ nodes' = Kept(r)
      /\ created' = r.created
      /\ active_node' = r.active_node
      /\ published' = r.published
      /\ delivered' = r.delivered
      /\ event_subscribers' = r.event_subscribers
      /\ called' = r.called
      /\ posted' = posted + 1
      /\ last' = VerticalNavigationEvent(direction)
      /\ UNCHANGED <<tree_root, construction>>

\* post_event(BackNavigationEvent())
BackNavigation ==
  \E r \in {catch_exception(handle_back_navigation(AppState))} :
    /\ WithinBounds(r)
    /\ nodes' = Kept(r)
    /\ created' = r.created
    /\ active_node' = r.active_node
    /\ published' = r.published
    /\ delivered' = r.delivered
    /\ event_subscribers' = r.event_subscribers
    /\ called' = r.called
    /\ posted' = posted + 1
    /\ last' = BackNavigationEvent
    /\ UNCHANGED <<tree_root, construction>>

Next ==
  \/ WidgetSubmitted
  \/ HorizontalNavigation
  \/ VerticalNavigation
  \/ BackNavigation

Spec == Init /\ [][Next]_vars

\* ----------------------------------------------- specification, subscribers
\* the number of post_event calls in a run with subscribers
MaxSubscribedEvents == 2

\* subscribe_to_events(callback)
Subscribe ==
  \E callback \in Callbacks :
    /\ event_subscribers' = subscribe_to_events(event_subscribers, callback)
    /\ UNCHANGED <<nodes, created, tree_root, active_node, published, posted,
                   last, delivered, called, construction>>

\* unsubscribe_from_events(callback)
Unsubscribe ==
  \E callback \in Callbacks :
    /\ event_subscribers' =
         unsubscribe_from_events(event_subscribers, callback)
    /\ UNCHANGED <<nodes, created, tree_root, active_node, published, posted,
                   last, delivered, called, construction>>

\* events posted while renderers subscribe and unsubscribe between them
NextSubscribers ==
  \/ Subscribe
  \/ Unsubscribe
  \/ (posted < MaxSubscribedEvents /\ WidgetSubmitted)
  \/ (posted < MaxSubscribedEvents /\ HorizontalNavigation)
  \/ (posted < MaxSubscribedEvents /\ VerticalNavigation)
  \/ (posted < MaxSubscribedEvents /\ BackNavigation)

SpecSubscribers == Init /\ [][NextSubscribers]_vars

\* ---------------------------------------- specification, posting callback
\* events posted while a renderer subscribes callbacks, one of which posts
\* an event of its own from inside the call
ReentrantCallbacks == {PostingCallback, "on_event"}

\* subscribe_to_events(callback), for these callbacks
SubscribeReentrant ==
  \E callback \in ReentrantCallbacks :
    /\ event_subscribers' = subscribe_to_events(event_subscribers, callback)
    /\ UNCHANGED <<nodes, created, tree_root, active_node, published, posted,
                   last, delivered, called, construction>>

NextReentrant ==
  \/ SubscribeReentrant
  \/ (posted < MaxSubscribedEvents /\ WidgetSubmitted)
  \/ (posted < MaxSubscribedEvents /\ HorizontalNavigation)
  \/ (posted < MaxSubscribedEvents /\ VerticalNavigation)
  \/ (posted < MaxSubscribedEvents /\ BackNavigation)

SpecReentrant == Init /\ [][NextReentrant]_vars

\* ------------------------------- specification, callbacks that subscribe
\* events posted while a renderer subscribes callbacks, some of which
\* subscribe or unsubscribe from inside the call
ListenerCallbacks == {OneShotCallback, SubscribingCallback, "on_event"}

\* subscribe_to_events(callback), for these callbacks
SubscribeListener ==
  \E callback \in ListenerCallbacks :
    /\ event_subscribers' = subscribe_to_events(event_subscribers, callback)
    /\ UNCHANGED <<nodes, created, tree_root, active_node, published, posted,
                   last, delivered, called, construction>>

NextListeners ==
  \/ SubscribeListener
  \/ (posted < MaxSubscribedEvents /\ WidgetSubmitted)
  \/ (posted < MaxSubscribedEvents /\ HorizontalNavigation)
  \/ (posted < MaxSubscribedEvents /\ VerticalNavigation)
  \/ (posted < MaxSubscribedEvents /\ BackNavigation)

SpecListeners == Init /\ [][NextListeners]_vars

\* ------------------------------------------------ specification, stacks
\* Trees whose stacks hold several nodes.  post_event never builds one from
\* the initial state (every navigation installs a one-element list), but
\* _handle_vertical_navigation and _handle_back_navigation are written for
\* stacks of any length; to see what they do with one, the events are
\* posted here on trees given as inputs, where a stack of `size` nodes of the
\* template "child" hangs under the root (depth 0) or under the root's only
\* child (depth 1), one of its nodes being the active node.
StackMembers(depth, size) == [i \in 1 .. size |-> 1 + depth + i]

StackedTree(depth, size, active) ==
  [n \in 1 .. (1 + depth + size) |->
     IF n = 1
     THEN [TreeNode(entry_panel_id, EmptyDict, EmptyDict, None, FALSE)
             EXCEPT !.children_stacks =
               << [key |-> "goto_child",
                   stack |-> IF depth = 0 THEN StackMembers(depth, size)
                             ELSE <<2>>] >>]
     ELSE IF n = 2 /\ depth = 1
     THEN [TreeNode("child", EmptyDict, EmptyDict, 1, FALSE)
             EXCEPT !.children_stacks =
               << [key |-> "another_nav",
                   stack |-> StackMembers(depth, size)] >>]
     ELSE TreeNode("child", EmptyDict, EmptyDict, 1 + depth, n = active)]

InitStacks ==
  /\ \E depth \in {0, 1} :
       \E size \in 2 .. (MaxNodes - 1 - depth) :
         \E active \in (2 + depth) .. (1 + depth + size) :
           /\ nodes = StackedTree(depth, size, active)
           /\ created = 1 + depth + size
           /\ active_node = active
  /\ tree_root = 1
  /\ published = <<>>
  /\ posted = 0
  /\ last = NoEvent
  /\ event_subscribers = <<>>
  /\ delivered = <<>>
  /\ called = <<>>
  /\ construction = load_and_validate(config_data)

\* number of post_event calls in a run that starts on such a tree
MaxStackedEvents == 2

NextStacks ==
  \/ (posted < MaxStackedEvents /\ WidgetSubmitted)
  \/ (posted < MaxStackedEvents /\ HorizontalNavigation)
  \/ (posted < MaxStackedEvents /\ VerticalNavigation)
  \/ (posted < MaxStackedEvents /\ BackNavigation)

SpecStacks == InitStacks /\ [][NextStacks]_vars

\* ------------------------------------------- specification, construction
\* configurations in the shape of the integrity tests: an entry panel id, a
\* panel "main" with a handler id, a panel_link and a button with a handler
\* id, and possibly the panel "child" of the configuration under test
EntryPanels == {"main", "child", "nonexistent"}
HandlerNames == {NoHandler, "", "NavHandler", "NonexistentHandler"}
LinkTargets == {"main", "child", "nonexistent"}

MainPanel(handler, widget_handler_name, target) ==
  [ id |-> "main", handler_class_name |-> handler,
    widgets |-> << [id |-> "link", type |-> "panel_link",
                    handler_class_name |-> NoHandler,
                    target_panel_id |-> target],
                   [id |-> "button", type |-> "button",
                    handler_class_name |-> widget_handler_name] >> ]

Configs ==
  { [entryPanel |-> e, panels |-> <<MainPanel(h, wh, t)>> \o rest] :
      e \in EntryPanels, h \in HandlerNames, wh \in HandlerNames,
      t \in LinkTargets, rest \in {<<>>, <<panel_templates["child"]>>} }

\* (mutant) the root is created without being made the active node
create_initial_state_no_active(entry) ==
  [ nodes       |-> [n \in {1} |->
                       TreeNode(entry, EmptyDict, EmptyDict, None, FALSE)],
    created     |-> 1,
    tree_root   |-> 1,
    active_node |-> None ]

\* Application._create_initial_state for entry panel id `entry`
create_initial_state(entry) ==
  [ nodes       |-> [n \in {1} |->
                       TreeNode(entry, EmptyDict, EmptyDict, None, TRUE)],
    created     |-> 1,
    tree_root   |-> 1,
    active_node |-> 1 ]

\* the fields __init__ sets before it loads the configuration
InitConstruction ==
  /\ nodes = [n \in {} |-> None]
  /\ created = 0
  /\ tree_root = None
  /\ active_node = None
  /\ published = <<>>
  /\ posted = 0
  /\ last = NoEvent
  /\ event_subscribers = <<>>
  /\ delivered = <<>>
  /\ called = <<>>
  /\ construction \in { NotStarted(config) : config \in Configs }

\* Application.__init__(config_path, handler_map): _load_config,
\* _validate_config_integrity, _create_initial_state
Construct ==
  /\ construction.phase = "new"
  /\ construction' = load_and_validate(construction.config_data)
  /\ \E r \in {IF construction'.phase = "constructed"
               THEN create_initial_state(construction.config_data.entryPanel)
               ELSE [nodes |-> nodes, created |-> created,
                     tree_root |-> tree_root, active_node |-> active_node]} :
       /\ nodes' = r.nodes
       /\ created' = r.created
       /\ tree_root' = r.tree_root
       /\ active_node' = r.active_node
  /\ UNCHANGED <<published, posted, last, event_subscribers, delivered,
                 called>>

NextConstruction == Construct

SpecConstruction == InitConstruction /\ [][NextConstruction]_vars

\* ============================================================== properties
\* what an observer of the tree sees
Tree == Reachable(nodes, tree_root)
ActiveNodes == { n \in Tree : nodes[n].is_active }

\* the last event was a submission with which a handler was called and ...
HandlerRaised(e) == e.type = "WidgetSubmitted" /\ e.outcome.kind = "raise"
NavigatedTo(e, targets) ==
  /\ e.type = "WidgetSubmitted"
  /\ e.outcome.kind = "navigate_down"
  /\ e.outcome.target \in targets

\* between two states: no node the application held has gone, and each has
\* the children_stacks, parent and is_active it had
SameTopology ==
  /\ DOMAIN nodes' = DOMAIN nodes
  /\ \A n \in DOMAIN nodes :
       /\ nodes'[n].children_stacks = nodes[n].children_stacks
       /\ nodes'[n].parent = nodes[n].parent
       /\ nodes'[n].is_active = nodes[n].is_active
  /\ active_node' = active_node

\* C1: after each post_event exactly one node reachable from the tree root
\* has is_active = true.
C1_SingleActive == Cardinality(ActiveNodes) = 1

\* C2: a submission whose handler returns navigate_down to a panel id that
\* is not in the template registry publishes ErrorOccurred and changes no
\* node's children_stacks, parent or is_active, nor the active node.
C2_UnknownTargetNoMutation ==
  [][ NavigatedTo(last', {UnknownPanel})
        => /\ published' = <<ErrorOccurredEvent("navigation")>>
           /\ SameTopology ]_vars

\* the state post_event returns when it is called in state s
After(s, event) ==
  post_event([s EXCEPT !.published = <<>>, !.delivered = <<>>,
                       !.called = <<>>],
             tree_root, event)

\* the nodes of the tree in pre-order: a node, then the nodes under each of
\* its stacks in turn
RECURSIVE PreOrder(_, _), PreOrderAll(_, _)
PreOrder(ns, n) == <<n>> \o PreOrderAll(ns, ChildrenOf(ns, n))
PreOrderAll(ns, children) ==
  IF children = <<>> THEN <<>>
  ELSE PreOrder(ns, Head(children)) \o PreOrderAll(ns, Tail(children))

HasWidget(n, w) == w \in WidgetIdsOf(nodes[n].panel_template)
NodesWith(w) == { n \in Tree : HasWidget(n, w) }
\* the first node in pre-order whose template has widget w (None if none)
FirstWith(w) ==
  LET order == PreOrder(nodes, tree_root)
      hits  == { i \in DOMAIN order : HasWidget(order[i], w) }
  IN  IF hits = {} THEN None
      ELSE order[CHOOSE i \in hits : \A j \in hits : i <= j]

\* the nodes of the branch under widget w of node n
Branch(n, w) ==
  IF w \in StackKeys(nodes[n].children_stacks)
  THEN SubtreeOfAll(nodes, StackAt(nodes[n].children_stacks, w))
  ELSE {}

\* C3: from a state whose active node is not the root,
\* HorizontalNavigation("previous") makes the parent of the active node
\* active and a following HorizontalNavigation("next") makes the originally
\* active node active again.
C3_PreviousThenNext ==
  active_node # tree_root =>
    \A s1 \in {After(AppState, HorizontalNavigationEvent("previous"))} :
    \A s2 \in {After(s1, HorizontalNavigationEvent("next"))} :
        /\ s1.active_node = nodes[active_node].parent
        /\ s2.active_node = active_node

\* the submissions that navigate down to a known panel from this state
DownEvents ==
  { WidgetSubmittedEvent(w, v, NavigateDown(target)) :
      w \in { x \in AllWidgetIds :
                handler_for(AppState, tree_root, x) # NoHandler },
      v \in Values, target \in PanelIds }

\* C4 as claimed: navigateDown(n, w, target) immediately followed by
\* BackNavigation leaves the same nodes reachable and the same node active
\* as before, and the intermediate node is discarded.
C4_RoundTrip ==
  \A e \in DownEvents :
    \A s1 \in {After(AppState, e)} :
    \A s2 \in {After(s1, BackNavigationEvent)} :
    \A tree2 \in {Reachable(s2.nodes, tree_root)} :
        /\ tree2 = Tree
        /\ s2.active_node = active_node
        /\ s1.created \notin tree2

\* C4 as amended: navigateDown(n, w, target) immediately followed by
\* BackNavigation discards the intermediate node, leaves n active and
\* leaves reachable the nodes that were, less the branch n had under w; so
\* if n was the active node and had no branch under w, the same nodes are
\* reachable and the same node is active as before.
C4_RoundTripAmended ==
  \A e \in DownEvents :
    \A n \in {FirstWith(e.widget_id)} :
    \A s1 \in {After(AppState, e)} :
    \A s2 \in {After(s1, BackNavigationEvent)} :
    \A tree2 \in {Reachable(s2.nodes, tree_root)} :
        /\ s1.created = created + 1
        /\ s1.active_node = s1.created
        /\ s1.created \notin tree2
        /\ tree2 = Tree \ Branch(n, e.widget_id)
        /\ s2.active_node = n
        /\ { m \in tree2 : s2.nodes[m].is_active } = {n}
        /\ (n = active_node /\ Branch(n, e.widget_id) = {})
             => /\ tree2 = Tree
                /\ s2.active_node = active_node

\* a navigateDown from the initial state, then BackNavigation
C4_Witness ==
  /\ posted = 2 /\ created = 2
  /\ last = BackNavigationEvent
  /\ published = <<StateChangedEvent>>
  /\ Tree = {tree_root} /\ active_node = tree_root

\* C5: a navigateDown from (node, widget id) yields a node whose id differs
\* from the id of every node created before, and afterwards no node of the
\* branch the widget had before (its node or any descendant) is reachable
\* from the root or found by find_node_by_widget_id, and the widget's stack
\* holds the new node alone.
C5_StackReplacement ==
  [][ NavigatedTo(last', PanelIds)
        => LET w == last'.widget_id
               n == FirstWith(w)
           IN  /\ created' > created
               /\ created' \notin DOMAIN nodes
               /\ Reachable(nodes', tree_root) \cap Branch(n, w) = {}
               /\ \A x \in AllWidgetIds :
                    find_node_by_widget_id(nodes', tree_root, x)
                      \notin Branch(n, w)
               /\ StackAt(nodes'[n].children_stacks, w) = <<created'>> ]_vars

\* three navigateDowns in a row, the last one replacing the root's branch
C5_Witness ==
  /\ posted = 3 /\ created = 4
  /\ NavigatedTo(last, PanelIds)
  /\ Tree = {tree_root, 4}
  /\ nodes[tree_root].children_stacks = <<[key |-> last.widget_id, stack |-> <<4>>]>>

\* C6: after a successful navigateDown(source, w, target) the new node is
\* the active node, its parent is source, it is the single element of
\* source.children_stacks[w], its template is the target, its form_data is
\* empty and its context is source.form_data, the value just submitted for
\* w included.
C6_NewNode ==
  [][ NavigatedTo(last', PanelIds)
        => LET w == last'.widget_id
               source == FirstWith(w)
               new == created'
           IN  /\ new \notin DOMAIN nodes
               /\ active_node' = new
               /\ nodes'[new].is_active
               /\ nodes'[new].parent = source
               /\ StackAt(nodes'[source].children_stacks, w) = <<new>>
               /\ nodes'[new].panel_template = last'.outcome.target
               /\ nodes'[new].form_data = EmptyDict
               /\ nodes'[new].children_stacks = <<>>
               /\ nodes'[new].context = nodes'[source].form_data
               /\ nodes'[new].context =
                    DictSet(nodes[source].form_data, w, last'.value) ]_vars

\* a node was just created whose context carries an earlier submission too
C6_Witness ==
  /\ NavigatedTo(last, PanelIds)
  /\ active_node = created
  /\ nodes[active_node].parent # None
  /\ Cardinality(DOMAIN nodes[active_node].context) >= 2

\* C7: no WidgetSubmitted event changes the context of a node that exists:
\* neither a write to the node's own form_data nor one to its parent's.
C7_ContextIsolation ==
  [][ last'.type = "WidgetSubmitted"
        => \A n \in (DOMAIN nodes) \cap (DOMAIN nodes') :
             nodes'[n].context = nodes[n].context ]_vars

\* after a submission, a child whose parent's form_data has moved on from
\* the child's context, and a child with form_data of its own
C7_Witness ==
  /\ last.type = "WidgetSubmitted"
  /\ \E n \in Tree :
       /\ nodes[n].parent # None
       /\ nodes[n].context # nodes[nodes[n].parent].form_data
  /\ \E n \in Tree :
       /\ nodes[n].parent # None
       /\ nodes[n].form_data # EmptyDict

\* C8: when the handler called for a WidgetSubmitted event raises,
\* post_event publishes exactly one ErrorOccurred and no StateChanged, and
\* the topology and the active node stay as they were.
C8_HandlerRaises ==
  [][ HandlerRaised(last')
        => /\ published' = <<ErrorOccurredEvent("handler")>>
           /\ SameTopology ]_vars

\* a handler raised in a tree of several nodes
C8_Witness ==
  /\ HandlerRaised(last)
  /\ published = <<ErrorOccurredEvent("handler")>>
  /\ Cardinality(Tree) >= 2

\* C9: a WidgetSubmitted event whose widget id is in the template of no node
\* of the tree changes nothing, calls no handler and publishes nothing.
C9_UnknownWidgetDropped ==
  [][ (last'.type = "WidgetSubmitted" /\ NodesWith(last'.widget_id) = {})
        => /\ nodes' = nodes
           /\ active_node' = active_node
           /\ created' = created
           /\ published' = <<>>
           /\ last'.outcome = NotCalled ]_vars

\* a submission for a widget of a panel that has no node in the tree, after
\* form data has been recorded
C9_Witness ==
  /\ last.type = "WidgetSubmitted"
  /\ last.widget_id \in AllWidgetIds
  /\ NodesWith(last.widget_id) = {}
  /\ published = <<>>
  /\ nodes[tree_root].form_data # EmptyDict

\* C10: a WidgetSubmitted(w, v) event with no navigation requested (no
\* handler, or the handler returns nothing) records form_data[w] = v at the
\* first node in pre-order whose template has w and changes no other node,
\* publishes exactly one StateChanged and leaves the active node and the
\* topology as they were.
C10_FormDataRecorded ==
  [][ ( /\ last'.type = "WidgetSubmitted"
        /\ last'.outcome.kind \in {"not_called", "return_none"}
        /\ NodesWith(last'.widget_id) # {} )
        => LET w == last'.widget_id
               n == FirstWith(w)
           IN  /\ nodes' = [nodes EXCEPT ![n].form_data =
                                     DictSet(@, w, last'.value)]
               /\ nodes'[n].form_data[w] = last'.value
               /\ published' = <<StateChangedEvent>>
               /\ SameTopology ]_vars

\* a value recorded for a widget that two nodes of the tree have, the
\* active node being the later one
C10_Witness ==
  /\ last.type = "WidgetSubmitted"
  /\ last.outcome.kind \in {"not_called", "return_none"}
  /\ published = <<StateChangedEvent>>
  /\ Cardinality(NodesWith(last.widget_id)) >= 2
  /\ HasWidget(active_node, last.widget_id)
  /\ active_node # FirstWith(last.widget_id)
  /\ last.widget_id \in DOMAIN nodes[FirstWith(last.widget_id)].form_data
  /\ last.widget_id \notin DOMAIN nodes[active_node].form_data

\* a submission with which no navigation is requested
NoNavigation(e) ==
  /\ e.type = "WidgetSubmitted"
  /\ e.outcome.kind \in {"not_called", "return_none"}

\* C11 as claimed: when the active node's template has widget w, a
\* WidgetSubmitted(w, v) with no navigation requested leaves the active node
\* unchanged and active_node.form_data[w] = v afterwards.
C11_ActiveFormData ==
  [][ (NoNavigation(last') /\ HasWidget(active_node, last'.widget_id))
        => /\ active_node' = active_node
           /\ last'.widget_id \in DOMAIN nodes'[active_node'].form_data
           /\ nodes'[active_node'].form_data[last'.widget_id] = last'.value
    ]_vars

\* C11 as amended: when the active node is the first node in pre-order from
\* the root whose template has widget w, a WidgetSubmitted(w, v) with no
\* navigation requested leaves the active node unchanged and
\* active_node.form_data[w] = v afterwards.
C11_ActiveFormDataAmended ==
  [][ ( /\ NoNavigation(last')
        /\ HasWidget(active_node, last'.widget_id)
        /\ FirstWith(last'.widget_id) = active_node )
        => /\ active_node' = active_node
           /\ last'.widget_id \in DOMAIN nodes'[active_node'].form_data
           /\ nodes'[active_node'].form_data[last'.widget_id] = last'.value
    ]_vars

\* a value recorded at an active node that is not the root
C11_Witness ==
  /\ NoNavigation(last)
  /\ active_node # tree_root
  /\ active_node \in Tree
  /\ FirstWith(last.widget_id) = active_node
  /\ published = <<StateChangedEvent>>
  /\ last.widget_id \in DOMAIN nodes[active_node].form_data
  /\ nodes[active_node].form_data[last.widget_id] = last.value

\* the item of p's children_stacks whose stack holds node n (None if none)
StackHolding(ns, p, n) ==
  LET cs == ns[p].children_stacks
      hits == { i \in DOMAIN cs : n \in SeqToSet(cs[i].stack) }
  IN  IF hits = {} THEN None ELSE CHOOSE i \in hits : TRUE

\* the nodes under node n, n not included
Descendants(ns, n) == SubtreeOfAll(ns, ChildrenOf(ns, n))

\* a node as _destroy_stack_recursively leaves it
Detached(ns, n) ==
  /\ ns[n].parent = None
  /\ ~ns[n].is_active
  /\ ns[n].children_stacks = <<>>

\* what BackNavigation does to active node N with parent P (state s2 after)
BackClosed(s2, N, P) ==
  LET at  == StackHolding(nodes, P, N)
      old == nodes[P].children_stacks[at]
      rest == SelectSeq(old.stack, LAMBDA m : m # N)
  IN  /\ at # None
      /\ \A m \in Descendants(nodes, N) : Detached(s2.nodes, m)
      /\ Detached(s2.nodes, N)
      /\ StackHolding(s2.nodes, P, N) = None
      /\ IF rest = <<>>
         THEN /\ old.key \notin StackKeys(s2.nodes[P].children_stacks)
              /\ s2.active_node = P
         ELSE /\ StackAt(s2.nodes[P].children_stacks, old.key) = rest
              /\ s2.active_node = rest[Len(rest)]
      /\ s2.nodes[s2.active_node].is_active
      /\ (Len(nodes[P].children_stacks) = 1 /\ rest = <<>>)
           => s2.nodes[P].children_stacks = <<>>
      /\ s2.published = <<StateChangedEvent>>

\* C12: when the active node N is not the root, BackNavigation destroys
\* every child stack of N, takes N out of the stack of its parent P that
\* holds it and detaches N; if the stack is then empty its entry is deleted
\* from P.children_stacks and P becomes active, otherwise the stack's last
\* element does; if the closed branch was P's only one, P.children_stacks
\* is empty afterwards.
C12_BackNavigation ==
  active_node # tree_root =>
    \A s2 \in {After(AppState, BackNavigationEvent)} :
      /\ nodes[active_node].parent # None
      /\ BackClosed(s2, active_node, nodes[active_node].parent)

\* the same for an active node that has a parent: this much holds; the
\* active node that is neither the root nor has a parent is the node a
\* failed navigate-down left detached
C12_BackNavigationWithParent ==
  (active_node # None /\ nodes[active_node].parent # None) =>
    \A s2 \in {After(AppState, BackNavigationEvent)} :
      BackClosed(s2, active_node, nodes[active_node].parent)

\* the submissions that ask for a navigate-down from this state, to a known
\* panel or not
AnyDownEvents ==
  { WidgetSubmittedEvent(w, v, NavigateDown(target)) :
      w \in { x \in AllWidgetIds :
                handler_for(AppState, tree_root, x) # NoHandler },
      v \in Values, target \in PanelIds \cup {UnknownPanel} }

\* in state s2 the nodes of set B are destroyed and out of the tree
Destroyed(s2, B) ==
  \A m \in B :
    /\ Detached(s2.nodes, m)
    /\ m \notin Reachable(s2.nodes, tree_root)

\* C13: whenever a stack is destroyed, by a navigate-down replacing a branch
\* or by BackNavigation, every node that was in the stack and every
\* descendant of such a node ends with parent = None, is_active = false and
\* empty children_stacks, none of the stack's nodes is left in the stack,
\* and none of those nodes is reachable from the root.
C13_DestroyComplete ==
  /\ \A e \in AnyDownEvents :
       \A n \in {FirstWith(e.widget_id)} :
       \A s2 \in {After(AppState, e)} :
         /\ Destroyed(s2, Branch(n, e.widget_id))
         /\ Branch(n, e.widget_id) # {} =>
              SeqToSet(StackAt(s2.nodes[n].children_stacks, e.widget_id))
                \cap Branch(n, e.widget_id) = {}
  /\ (active_node # None /\ nodes[active_node].parent # None) =>
       \A s2 \in {After(AppState, BackNavigationEvent)} :
         /\ Destroyed(s2, Descendants(nodes, active_node))
         /\ s2.nodes[active_node].children_stacks = <<>>

\* a branch two levels deep was destroyed by a navigate-down from the root;
\* the node that was active in it is still at hand, and is detached
C13_Witness ==
  /\ NavigatedTo(last, {UnknownPanel})
  /\ created = 3
  /\ Tree = {tree_root}
  /\ active_node = 3
  /\ Detached(nodes, active_node)

\* every event a caller can post in this state: what the handler does is
\* chosen only where the submission gets to call one
AllEvents ==
  { e \in { WidgetSubmittedEvent(w, v, o) :
              w \in AllWidgetIds \cup {UnknownWidget}, v \in Values,
              o \in HandlerOutcomes \cup {NotCalled} } :
      (e.outcome = NotCalled)
        <=> (handler_for(AppState, tree_root, e.widget_id) = NoHandler) }
    \cup { HorizontalNavigationEvent(d) : d \in {"next", "previous"} }
    \cup { VerticalNavigationEvent(d) : d \in {"up", "down"} }
    \cup { BackNavigationEvent }

\* the events published are exactly one ErrorOccurredEvent
OneError(events) == Len(events) = 1 /\ events[1].type = "ErrorOccurred"

\* C14: post_event never lets an exception out to its caller: an exception
\* raised by the handler (its constructor or on_widget_update) or in a tree
\* algorithm ends in an ErrorOccurredEvent, and after such an event a
\* further post_event is processed as ever: it lets no exception out
\* either, a submission without navigation is recorded and answered with
\* StateChanged, a navigate-down to a known panel makes the new node active.
C14_NeverPropagates ==
  /\ \A s2 \in {catch_exception(Raise(AppState))} :
       /\ ~s2.raised
       /\ s2.published = <<ErrorOccurredEvent("internal")>>
       /\ s2.nodes = nodes /\ s2.active_node = active_node
  /\ \A e \in AllEvents :
       \A s2 \in {After(AppState, e)} :
         /\ ~s2.raised
         /\ HandlerRaised(e) => OneError(s2.published)
         /\ OneError(published) =>
              /\ ( NoNavigation(e) /\ NodesWith(e.widget_id) # {} ) =>
                   /\ s2.published = <<StateChangedEvent>>
                   /\ s2.nodes[FirstWith(e.widget_id)].form_data[e.widget_id]
                        = e.value
              /\ NavigatedTo(e, PanelIds) =>
                   /\ s2.published = <<StateChangedEvent>>
                   /\ s2.active_node = created + 1

\* a handler has raised and post_event has answered with ErrorOccurred; the
\* next submission is accepted
C14_Witness ==
  /\ HandlerRaised(last)
  /\ OneError(published)
  /\ posted < MaxEvents
  /\ \E e \in AllEvents :
       /\ NoNavigation(e)
       /\ After(AppState, e).published = <<StateChangedEvent>>

\* C15: every event post_event publishes is delivered, before post_event
\* returns, to every subscriber in subscription order; a subscriber that
\* raises keeps the event from no subscriber after it, and the subscribers
\* make no difference to the state post_event leaves.
C15_OrderedDelivery ==
  [][ posted' = posted + 1 =>
        /\ Len(delivered') = Len(published') * Len(event_subscribers)
        /\ \A k \in DOMAIN published', i \in DOMAIN event_subscribers :
             LET call == delivered'[(k - 1) * Len(event_subscribers) + i]
             IN  /\ call.callback = event_subscribers[i]
                 /\ call.event = published'[k]
        /\ \A s0 \in {post_event([AppState EXCEPT !.event_subscribers = <<>>],
                                 tree_root, last')} :
             /\ nodes' = Kept(s0)
             /\ active_node' = s0.active_node
             /\ created' = s0.created
             /\ published' = s0.published
    ]_vars

\* an event went to a subscriber that raised and then to the one after it
C15_Witness ==
  /\ event_subscribers = <<"failing_callback", "on_event">>
  /\ published # <<>>
  /\ Len(delivered) = 2
  /\ delivered[1].callback = "failing_callback" /\ delivered[1].raised
  /\ delivered[2].callback = "on_event" /\ ~delivered[2].raised
  /\ delivered[2].event = published[1]

\* the widget of template p with id w
WidgetOf(p, w) ==
  panel_templates[p].widgets[
    CHOOSE i \in DOMAIN panel_templates[p].widgets :
      panel_templates[p].widgets[i].id = w]

\* the handler id that applies to widget w of template p: the widget's own
\* if it has one, else the panel's, else none
HandlerIdOf(p, w) ==
  IF WidgetOf(p, w).handler_class_name # NoHandler
  THEN WidgetOf(p, w).handler_class_name
  ELSE panel_templates[p].handler_class_name

\* C16: for a submitted widget the widget's own handler id is used if set,
\* otherwise the owning panel's, otherwise no handler runs; at most one
\* handler is called per WidgetSubmitted event, and a handler of the widget
\* always comes before the panel's.
C16_HandlerResolution ==
  [][ last'.type = "WidgetSubmitted" =>
        LET w == last'.widget_id
            n == FirstWith(w)
        IN  /\ Len(called') <= 1
            /\ n = None => called' = <<>>
            /\ n # None =>
                 LET p == nodes[n].panel_template
                 IN  /\ called' = IF HandlerIdOf(p, w) = NoHandler THEN <<>>
                                  ELSE <<HandlerIdOf(p, w)>>
                     /\ WidgetOf(p, w).handler_class_name # NoHandler
                          => called' = <<WidgetOf(p, w).handler_class_name>>
                     /\ (last'.outcome = NotCalled) <=> (called' = <<>>)
    ]_vars

\* a widget with a handler of its own on a panel with another handler was
\* submitted, and a widget without one on the same panel
C16_Witness ==
  /\ last.type = "WidgetSubmitted"
  /\ FirstWith(last.widget_id) # None
  /\ LET p == nodes[FirstWith(last.widget_id)].panel_template
     IN  /\ panel_templates[p].handler_class_name # NoHandler
         /\ WidgetOf(p, last.widget_id).handler_class_name # NoHandler
         /\ WidgetOf(p, last.widget_id).handler_class_name
              # panel_templates[p].handler_class_name
         /\ called = <<WidgetOf(p, last.widget_id).handler_class_name>>

\* the panel ids a configuration defines
DefinedPanels(config) == { config.panels[i].id : i \in DOMAIN config.panels }

\* every handler id a configuration gives to a panel or to a widget
HandlerIdsNamed(config) ==
  { config.panels[i].handler_class_name : i \in DOMAIN config.panels }
  \cup UNION { { config.panels[i].widgets[j].handler_class_name :
                   j \in DOMAIN config.panels[i].widgets } :
               i \in DOMAIN config.panels }

\* every target a panel_link of a configuration has
LinkTargetsNamed(config) ==
  UNION { { config.panels[i].widgets[j].target_panel_id :
              j \in { k \in DOMAIN config.panels[i].widgets :
                        config.panels[i].widgets[k].type = "panel_link" } } :
          i \in DOMAIN config.panels }

EntryUndefined(config) == config.entryPanel \notin DefinedPanels(config)
LinkUndefined(config) ==
  \E target \in LinkTargetsNamed(config) : target \notin DefinedPanels(config)

NoCore == tree_root = None /\ active_node = None /\ DOMAIN nodes = {}
Aborted == construction.phase = "ValueError" /\ NoCore

C18_InitialState ==
  [][ construction.phase = "new" /\ construction'.phase = "constructed" =>
        /\ tree_root' # None
        /\ DOMAIN nodes' = {tree_root'}
        /\ Reachable(nodes', tree_root') = {tree_root'}
        /\ nodes'[tree_root'].panel_template
             = construction.config_data.entryPanel
        /\ nodes'[tree_root'].panel_template
             \in DefinedPanels(construction.config_data)
        /\ nodes'[tree_root'].parent = None
        /\ nodes'[tree_root'].is_active = TRUE
        /\ DOMAIN nodes'[tree_root'].context = {}
        /\ DOMAIN nodes'[tree_root'].form_data = {}
        /\ nodes'[tree_root'].children_stacks = <<>>
        /\ active_node' = tree_root'
    ]_vars

\* a core was constructed on a configuration whose entry panel is not the
\* first panel of the file
C18_Witness ==
  /\ construction.phase = "constructed"
  /\ construction.config_data.entryPanel = "child"
  /\ active_node = tree_root
  /\ nodes[tree_root].panel_template = "child"


\* the node _create_initial_state made: the first node_id handed out
StartupNode == 1

\* the nodes in the stacks of the nodes the application holds
InStacks == UNION { SeqToSet(ChildrenOf(nodes, p)) : p \in DOMAIN nodes }

\* C19: in every reachable state tree_root is the node created at startup:
\* it is never replaced, detached or destroyed and is in no stack; and a node
\* reachable from the root has parent None if and only if it is the root.
C19_RootFixed ==
  /\ tree_root = StartupNode
  /\ tree_root \in DOMAIN nodes
  /\ nodes[tree_root].panel_template = entry_panel_id
  /\ nodes[tree_root].parent = None
  /\ tree_root \notin InStacks
  /\ \A n \in Tree : nodes[n].parent = None <=> n = tree_root

\* three events have built and cut branches, and the active node is a node
\* two levels under the root
C19_Witness ==
  /\ posted = MaxEvents
  /\ Cardinality(Tree) >= 3
  /\ active_node \in Tree
  /\ nodes[active_node].parent \notin {None, tree_root}

\* the <<parent, stack, position>> places where node n is held
Places(n) ==
  { place \in UNION { { <<p, i, j>> :
                          i \in DOMAIN nodes[p].children_stacks,
                          j \in 1 .. MaxNodes } : p \in DOMAIN nodes } :
      /\ place[3] \in DOMAIN nodes[place[1]].children_stacks[place[2]].stack
      /\ nodes[place[1]].children_stacks[place[2]].stack[place[3]] = n }

\* the nodes met going up the parent references from n, at most `steps` of
\* them
RECURSIVE Ancestors(_, _)
Ancestors(n, steps) ==
  IF steps = 0 \/ nodes[n].parent = None
       \/ nodes[n].parent \notin DOMAIN nodes
  THEN {}
  ELSE {nodes[n].parent} \cup Ancestors(nodes[n].parent, steps - 1)

\* C20: in every reachable state each node is in at most one stack of at most
\* one parent and at most once in it, every node in a stack of p has parent
\* p, each node has at most one stack per widget id, and the structure is a
\* tree: no node is shared and no node is its own ancestor.
C20_ExclusiveOwnership ==
  \A n \in DOMAIN nodes :
    /\ Cardinality(Places(n)) <= 1
    /\ \A place \in Places(n) : nodes[n].parent = place[1]
    /\ \A i, j \in DOMAIN nodes[n].children_stacks :
         nodes[n].children_stacks[i].key = nodes[n].children_stacks[j].key
           => i = j
    /\ n \notin Ancestors(n, MaxNodes + 1)
    /\ n \in Tree \ {tree_root} => Cardinality(Places(n)) = 1

\* a node holds two stacks with a node in each, under another node
C20_Witness ==
  \E p \in Tree :
    /\ nodes[p].parent # None
    /\ Len(nodes[p].children_stacks) = 2
    /\ \A i \in 1 .. 2 : nodes[p].children_stacks[i].stack # <<>>


\* the position of node n in a list that holds it
PositionIn(stack, n) == CHOOSE i \in DOMAIN stack : stack[i] = n

\* the index VerticalNavigation looks at, from position i
Candidate(direction, i) == IF direction = "up" THEN i + 1 ELSE i - 1

\* the list with its element at position i moved to the end
MovedToEnd(stack, i) ==
  SelectSeq(stack, LAMBDA m : m # stack[i]) \o <<stack[i]>>

\* s1 is the state with the node at position c of the stack of parent P
\* under `key` promoted: the node is the last of the stack and the active
\* node, the stack has the same members, nothing else has changed; and a
\* BackNavigation from s1 closes that node and activates the node then on
\* top, a HorizontalNavigation("previous") from s1 activates P and leaves
\* the reordered stack as it is
Promoted(s1, P, key, stack, c) ==
  /\ StackAt(s1.nodes[P].children_stacks, key) = MovedToEnd(stack, c)
  /\ SeqToSet(StackAt(s1.nodes[P].children_stacks, key)) = SeqToSet(stack)
  /\ Len(StackAt(s1.nodes[P].children_stacks, key)) = Len(stack)
  /\ s1.active_node = stack[c]
  /\ \A n \in DOMAIN s1.nodes : s1.nodes[n].is_active <=> n = stack[c]
  /\ DOMAIN s1.nodes = DOMAIN nodes
  /\ \A n \in DOMAIN nodes :
       /\ s1.nodes[n].parent = nodes[n].parent
       /\ s1.nodes[n].form_data = nodes[n].form_data
       /\ s1.nodes[n].context = nodes[n].context
       /\ n # P => s1.nodes[n].children_stacks = nodes[n].children_stacks
  /\ StackKeys(s1.nodes[P].children_stacks)
       = StackKeys(nodes[P].children_stacks)
  /\ s1.published = <<StateChangedEvent>>
  /\ \A s2 \in {After(s1, BackNavigationEvent)} :
       /\ StackAt(s2.nodes[P].children_stacks, key)
            = SelectSeq(stack, LAMBDA m : m # stack[c])
       /\ s2.active_node
            = StackAt(s2.nodes[P].children_stacks, key)[Len(stack) - 1]
       /\ s2.nodes[stack[c]].parent = None
  /\ \A s3 \in {After(s1, HorizontalNavigationEvent("previous"))} :
       /\ s3.active_node = P
       /\ StackAt(s3.nodes[P].children_stacks, key) = MovedToEnd(stack, c)

\* VerticalNavigation(direction) from the active node, which is at position
\* i of the stack of parent P under `key`
PromoteToTop(direction, P, key, stack, i) ==
  \A s1 \in {After(AppState, VerticalNavigationEvent(direction))} :
    IF Candidate(direction, i) \in DOMAIN stack
    THEN Promoted(s1, P, key, stack, Candidate(direction, i))
    ELSE /\ s1.nodes = nodes
         /\ s1.active_node = active_node
         /\ s1.published = <<>>

Unchanged(s1) ==
  /\ s1.nodes = nodes
  /\ s1.active_node = active_node
  /\ s1.created = created
  /\ s1.published = <<>>

\* the active node is in a stack of its parent that has at most one member
AloneInStack ==
  /\ active_node # None
  /\ nodes[active_node].parent # None
  /\ StackHolding(nodes, nodes[active_node].parent, active_node) # None
  /\ Len(nodes[nodes[active_node].parent].children_stacks[
           StackHolding(nodes, nodes[active_node].parent, active_node)
         ].stack) <= 1

TreeAtReturn == [nodes |-> nodes, active_node |-> active_node]

\* C23: each post_event is a single atomic transition as seen by subscribers:
\* an outbound event is published only after all tree mutations of that
\* post_event are complete, so the tree a subscriber observes during
\* delivery is exactly the tree that exists when post_event returns.
C23_AtomicTransition ==
  [][ posted' = posted + 1 =>
        \A i \in DOMAIN delivered' : delivered'[i].observed = TreeAtReturn'
    ]_vars

\* the same where no subscribed callback posts an event from inside its
\* call: every call of the post_event sees the tree post_event returns with
C23_AtomicWithoutPosting ==
  [][ posted' = posted + 1 /\ PostingCallback \notin SeqToSet(event_subscribers)
        => \A i \in DOMAIN delivered' :
             /\ delivered'[i].observed = TreeAtReturn'
             /\ delivered'[i].depth = 0
    ]_vars

\* C24: post_event runs to completion, delivery of its outbound event to
\* every subscriber included, before any other event is processed, also for
\* an event a subscriber posts from inside its callback; so every subscriber
\* receives the outbound events in the order the inbound events were posted.
C24_RunToCompletion ==
  [][ posted' = posted + 1 =>
        \A i, j \in DOMAIN delivered' :
          i < j => delivered'[i].depth <= delivered'[j].depth
    ]_vars

\* the same for the events the caller posts one after the other: each call
\* of post_event delivers each event it publishes to every subscriber before
\* it returns
C24_SequentialPosts ==
  [][ posted' = posted + 1 /\ PostingCallback \notin SeqToSet(event_subscribers)
        => /\ Len(delivered') = Len(published') * Len(event_subscribers)
           /\ \A i \in DOMAIN delivered' : delivered'[i].depth = 0
    ]_vars


\* C25: in every reachable state active_node is a node reachable from
\* tree_root through children_stacks and its is_active flag is true: the
\* active pointer never dangles on a destroyed or detached node, failing
\* navigations included.
C25_ActiveReachable ==
  /\ active_node # None
  /\ active_node \in Tree
  /\ nodes[active_node].is_active

\* the same for the events that are not a navigation to an unknown panel:
\* they keep an active node that is in the tree in the tree, and flagged
C25_ActiveKeptReachable ==
  [][ ( /\ posted' = posted + 1
        /\ ~NavigatedTo(last', {UnknownPanel})
        /\ active_node \in Tree /\ nodes[active_node].is_active )
      => ( /\ active_node' # None
           /\ active_node' \in Reachable(nodes', tree_root')
           /\ nodes'[active_node'].is_active )
    ]_vars

\* a list of nodes that goes from the root down to the active node, each
\* node the parent of the next
RootToActive(path) ==
  /\ path # <<>>
  /\ path[1] = tree_root
  /\ path[Len(path)] = active_node
  /\ \A i \in 1 .. (Len(path) - 1) : nodes[path[i + 1]].parent = path[i]

\* C26: in every reachable state with an active node the path to the active
\* node is a list whose first element is the tree root and whose last element
\* is the active node, each element being the parent of the next.
C26_PathToActive ==
  active_node # None => RootToActive(get_path_to_active_node(AppState))

\* the same where the active node is in the tree; the path then also goes
\* through the stacks: each element is in a stack of the element before it
C26_PathToActiveInTree ==
  (active_node # None /\ active_node \in Tree) =>
    /\ RootToActive(get_path_to_active_node(AppState))
    /\ \A path \in {get_path_to_active_node(AppState)} :
         \A i \in 1 .. (Len(path) - 1) :
           path[i + 1] \in SeqToSet(ChildrenOf(nodes, path[i]))


\* C27: the submitted value is recorded unconditionally: after
\* post_event(WidgetSubmitted(w, v)) for a widget found in the tree the
\* owning node has form_data[w] = v, also when the handler raised and when
\* the navigation it asked for failed on an unknown target; nothing is
\* rolled back.
C27_RecordedUnconditionally ==
  [][ ( /\ last'.type = "WidgetSubmitted"
        /\ posted' = posted + 1
        /\ NodesWith(last'.widget_id) # {} )
      => \A n \in {FirstWith(last'.widget_id)} :
           /\ n \in DOMAIN nodes'
           /\ nodes'[n].form_data
                = DictSet(nodes[n].form_data, last'.widget_id, last'.value)
           /\ nodes'[n].form_data[last'.widget_id] = last'.value
    ]_vars

\* a handler asked for an unknown panel, the error was published, and the
\* value of the submission is in the form_data of the widget's node
C27_Witness ==
  /\ NavigatedTo(last, {UnknownPanel})
  /\ Len(published) = 1 /\ published[1].type = "ErrorOccurred"
  /\ \E n \in Tree :
       /\ HasWidget(n, last.widget_id)
       /\ last.widget_id \in DOMAIN nodes[n].form_data
       /\ nodes[n].form_data[last.widget_id] = last.value


\* the stacks of the nodes the application holds
AllStacks ==
  UNION { { nodes[n].children_stacks[i].stack :
              i \in DOMAIN nodes[n].children_stacks } : n \in DOMAIN nodes }

\* C28: in every reachable state every entry of every node's children_stacks
\* is a non-empty list: a stack that becomes empty is removed from its
\* parent's children_stacks in the same transition, failing navigations
\* included.
C28_NoEmptyStack == \A stack \in AllStacks : stack # <<>>

\* the same for the events that are not a navigation to an unknown panel:
\* they leave no empty stack where there was none
C28_NoEmptyStackKept ==
  [][ ( /\ posted' = posted + 1
        /\ ~NavigatedTo(last', {UnknownPanel})
        /\ C28_NoEmptyStack )
      => C28_NoEmptyStack'
    ]_vars

C31_HorizontalFrame ==
  [][ (last'.type = "HorizontalNavigation" /\ active_node' # active_node)
        => /\ created' = created
           /\ DOMAIN nodes' = DOMAIN nodes
           /\ \A n \in DOMAIN nodes :
                /\ [nodes'[n] EXCEPT !.is_active = nodes[n].is_active]
                     = nodes[n]
                /\ n \notin {active_node, active_node'}
                     => nodes'[n].is_active = nodes[n].is_active
           /\ nodes'[active_node'].is_active
           /\ ~nodes'[active_node].is_active
           /\ published' = <<StateChangedEvent>> ]_vars

\* HorizontalNavigation("previous") has moved the focus from a node that
\* has a context, two levels below the root, to its parent, which keeps the
\* branch under it
C31_Witness ==
  /\ last = HorizontalNavigationEvent("previous")
  /\ published = <<StateChangedEvent>>
  /\ active_node # tree_root
  /\ nodes[active_node].children_stacks # <<>>
  /\ \E n \in SeqToSet(ChildrenOf(nodes, active_node)) :
       /\ DOMAIN nodes[n].context # {}
       /\ ~nodes[n].is_active


\* the items of a children_stacks other than the one of key w, in order
OtherStacks(cs, w) == SelectSeq(cs, LAMBDA item : item.key # w)

\* C32: a submission that reaches navigateDown(source, w, target), the
\* target known or not, touches only the branch source had under w: every
\* node of the tree outside that branch stays in the tree with the
\* panel_template, context, parent and children_stacks it had, and the
\* form_data it had (for source: the form_data the submission recorded
\* before it navigated); source keeps its other stacks, their order and their
\* members; nothing but a new node joins the tree.  Only is_active flags
\* may differ.
C32_NavigateDownFrame ==
  [][ NavigatedTo(last', PanelIds \cup {UnknownPanel})
        => LET w == last'.widget_id
               source == FirstWith(w)
               outside == Tree \ Branch(source, w)
           IN  /\ source \in outside
               /\ outside \subseteq Reachable(nodes', tree_root)
               /\ Reachable(nodes', tree_root) \ outside
                    \subseteq {created'} \ (DOMAIN nodes)
               /\ \A n \in outside \ {source} :
                    [nodes'[n] EXCEPT !.is_active = nodes[n].is_active]
                      = nodes[n]
               /\ nodes'[source].panel_template = nodes[source].panel_template
               /\ nodes'[source].context = nodes[source].context
               /\ nodes'[source].parent = nodes[source].parent
               /\ nodes'[source].form_data
                    = DictSet(nodes[source].form_data, w, last'.value)
               /\ OtherStacks(nodes'[source].children_stacks, w)
                    = OtherStacks(nodes[source].children_stacks, w) ]_vars

\* a navigateDown from a widget of a node that has a branch under another
\* of its widgets, and keeps it
C32_Witness ==
  /\ NavigatedTo(last, PanelIds)
  /\ published = <<StateChangedEvent>>
  /\ \E source \in Tree :
       /\ Len(nodes[source].children_stacks) = 2
       /\ nodes[source].children_stacks[2].key = last.widget_id
       /\ nodes[source].children_stacks[2].stack = <<active_node>>
       /\ nodes[source].children_stacks[1].stack # <<>>


\* the key of the stack of node P that holds node N
KeyHolding(P, N) == nodes[P].children_stacks[StackHolding(nodes, P, N)].key

\* what is left of P's children_stacks when N is taken out of the stack that
\* holds it, that stack going with it if N was its only member
WithoutNode(P, N) ==
  LET cs == nodes[P].children_stacks
      at == StackHolding(nodes, P, N)
      rest == SelectSeq(cs[at].stack, LAMBDA m : m # N)
  IN  IF rest = <<>>
      THEN [i \in 1 .. (Len(cs) - 1) |-> IF i < at THEN cs[i] ELSE cs[i + 1]]
      ELSE [cs EXCEPT ![at].stack = rest]

\* C33: BackNavigation with an active node N that is not the root removes N
\* and its descendants from the tree and nothing else: the nodes outside
\* N's subtree stay in the tree, each with the panel_template, context,
\* form_data and parent it had; all but N's parent keep their
\* children_stacks, and N's parent P keeps its stacks under the other
\* widget ids, their order and members, and the other members of the stack
\* that held N.  No node is created.  Only is_active flags may differ.
C33_BackFrame ==
  (active_node # None /\ active_node # tree_root) =>
    \A s2 \in {After(AppState, BackNavigationEvent)} :
    \A outside \in {Tree \ Subtree(nodes, active_node)} :
    \A P \in {nodes[active_node].parent} :
      /\ Reachable(s2.nodes, tree_root) = outside
      /\ s2.created = created
      /\ \A n \in outside \ {P} :
           [s2.nodes[n] EXCEPT !.is_active = nodes[n].is_active] = nodes[n]
      /\ P # None =>
           /\ P \in outside
           /\ [s2.nodes[P] EXCEPT
                 !.is_active = nodes[P].is_active,
                 !.children_stacks = nodes[P].children_stacks] = nodes[P]
           /\ StackHolding(nodes, P, active_node) # None
           /\ OtherStacks(s2.nodes[P].children_stacks,
                          KeyHolding(P, active_node))
                = OtherStacks(nodes[P].children_stacks,
                              KeyHolding(P, active_node))
           /\ s2.nodes[P].children_stacks = WithoutNode(P, active_node)

\* the active node is one of two branches of its parent, each under its own
\* widget id; BackNavigation from it leaves the parent active, with the
\* other branch alone, in a tree of three nodes
C33_Witness ==
  /\ active_node # tree_root
  /\ nodes[active_node].parent # None
  /\ Len(nodes[nodes[active_node].parent].children_stacks) = 2
  /\ \A s2 \in {After(AppState, BackNavigationEvent)} :
       /\ s2.published = <<StateChangedEvent>>
       /\ Len(s2.nodes[nodes[active_node].parent].children_stacks) = 1
       /\ s2.active_node = nodes[active_node].parent
       /\ Cardinality(Reachable(s2.nodes, tree_root)) = 3


\* the one outbound event a submission is to publish: ErrorOccurred when the
\* handler it calls raises or asks for a panel that does not exist,
\* StateChanged otherwise
OutboundFor(e) ==
  IF e.outcome.kind = "raise" THEN ErrorOccurredEvent("handler")
  ELSE IF e.outcome.kind = "navigate_down" /\ e.outcome.target \notin PanelIds
  THEN ErrorOccurredEvent("navigation")
  ELSE StateChangedEvent

\* C34: every post_event call publishes at most one outbound event; a
\* WidgetSubmitted whose widget is in the template of a node of the tree
\* publishes exactly one: ErrorOccurred if the handler raises or the
\* navigation fails, StateChanged otherwise, a navigate-down to a known
\* panel included (one StateChanged, not two).
C34_OnePublication ==
  [][ posted' = posted + 1
        => /\ Len(published') <= 1
           /\ (last'.type = "WidgetSubmitted"
               /\ NodesWith(last'.widget_id) # {})
                => published' = <<OutboundFor(last')>> ]_vars

\* the first event posted was a submission that navigated down to a known
\* panel and published one StateChanged
C34_Witness ==
  /\ posted = 1
  /\ NavigatedTo(last, PanelIds)
  /\ created = 2
  /\ Len(published) = 1
  /\ published[1].type = "StateChanged"


NavigationEventTypes ==
  {"HorizontalNavigation", "VerticalNavigation", "BackNavigation"}

Depth(ns, n) == Len(PathUp(ns, n)) - 1

\* the state after k BackNavigation events posted in a row from state s
RECURSIVE BackTimes(_, _)
BackTimes(s, k) ==
  IF k = 0 THEN s ELSE BackTimes(After(s, BackNavigationEvent), k - 1)

\* the root is active in state s and one more BackNavigation changes nothing
RestsAtRoot(s) ==
  /\ s.active_node = tree_root
  /\ \A s2 \in {After(s, BackNavigationEvent)} :
       /\ s2.nodes = s.nodes
       /\ s2.active_node = s.active_node
       /\ s2.created = s.created
       /\ s2.published = <<>>

\* C36: in every reachable state, as many BackNavigation events as the
\* active node is deep make the tree root the active node, and a further
\* BackNavigation then changes nothing and publishes nothing.
C36_BackToRoot ==
  RestsAtRoot(BackTimes(AppState, Depth(nodes, active_node)))

\* the same in the states whose active node is in the tree: this much holds,
\* and there each of those BackNavigation events moves the focus one level up
C36_BackToRootInTree ==
  active_node \in Tree =>
    /\ RestsAtRoot(BackTimes(AppState, Depth(nodes, active_node)))
    /\ \A k \in 0 .. Depth(nodes, active_node) :
         \A s \in {BackTimes(AppState, k)} :
           /\ s.active_node \in Reachable(s.nodes, tree_root)
           /\ Depth(s.nodes, s.active_node) = Depth(nodes, active_node) - k


\* how many of the callback calls of a delivery were calls of callback c
TimesCalled(calls, c) ==
  Cardinality({ i \in DOMAIN calls : calls[i].callback = c })

\* C37: an event that post_event publishes is delivered exactly once to
\* every callback that was subscribed when its publication started, whether
\* or not a callback subscribes or unsubscribes during the delivery.
C37_DeliveredOnceToEach ==
  [][ (posted' = posted + 1 /\ Len(published') = 1)
        => \A c \in SeqToSet(event_subscribers) :
             TimesCalled(delivered', c) = 1 ]_vars

\* the same for a delivery during which no callback unsubscribes, and the
\* rest of the claim: no callback is called twice for an event, one that was
\* subscribed during the delivery is called for it too, and subscribing a
\* callback that is subscribed leaves the list as it is.  This much holds.
C37_DeliveredOnceUnlessUnsubscribed ==
  [][ (posted' = posted + 1 /\ Len(published') = 1)
        => /\ OneShotCallback \notin SeqToSet(event_subscribers)
                => \A c \in SeqToSet(event_subscribers') :
                     TimesCalled(delivered', c) = 1
           /\ \A c \in ListenerCallbacks : TimesCalled(delivered', c) <= 1
           /\ \A c \in SeqToSet(event_subscribers') :
                subscribe_to_events(event_subscribers', c)
                  = event_subscribers' ]_vars

====
